---- MODULE Spec2Model ----
(***************************************************************************)
(* Model of src/Permissions.js: the robots.txt rule trie (ExpressionTree,  *)
(* ExpressionNode) and its facade (Permissions).                           *)
(*                                                                         *)
(* A string is a sequence of one-character strings.  A node of the trie is *)
(* identified by the sequence of edge characters leading to it from the    *)
(* root (the root is << >>); node.children.has(c) is membership of         *)
(* Append(node, c) in the set of nodes, node.value is the last character.  *)
(***************************************************************************)
EXTENDS Integers, Sequences, FiniteSets, TLC

VARIABLES nodes,              \* the ExpressionNodes created so far
          allowFlag,          \* the nodes whose allowFlag is true
          disallowFlag,       \* the nodes whose disallowFlag is true
          DEFAULT_PERMISSION, \* ExpressionTree.DEFAULT_PERMISSION
          rules,              \* history: the (expression, ruleType) pairs passed to addPath
          lastCall,           \* the public method called last
          queried,            \* the path of the last isAllowed call
          returned            \* what the last call returned

vars == <<nodes, allowFlag, disallowFlag, DEFAULT_PERMISSION, rules, lastCall, queried, returned>>

trieVars == <<nodes, allowFlag, disallowFlag, DEFAULT_PERMISSION>>

----------------------------------------------------------------------------
(* Bounds and inputs *)

MaxRules == 2

MaxPathLen == 2

PathChars == {"a", "b", "*", "$"}

RuleTypes == {"allow", "disallow", "noindex"}

RECURSIVE UpTo(_, _)
UpTo(S, n) ==
  IF n = 0 THEN {<< >>}
  ELSE LET shorter == UpTo(S, n - 1)
       IN  shorter \cup {Append(s, c) : s \in shorter, c \in S}

\* the patterns a robots.txt parser hands to addPath
Patterns ==
  { << >>,
    <<"$">>,
    <<"*">>,
    <<"a">>,
    <<"a", "b">>,
    <<"a", "$">>,
    <<"a", "*">>,
    <<"a", "*", "$">>,
    <<"a", "*", "b">>,
    <<"/", "a", "*", "b">>,
    <<"/", "a", "$">>,
    <<"/", "*", ".", "p", "d", "f", "$">> }

\* the paths a crawler hands to isAllowed
QueryPaths ==
  { << >>,
    <<"a">>,
    <<"a", "b">>,
    <<"a", "b", "b">>,
    <<"a", "x", "b">>,
    <<"a", "*", "b">>,
    <<"/", "a">>,
    <<"/", "a", "b">>,
    <<"/", "a", "c">>,
    <<"/", "a", "x", "x", "x", "b">>,
    <<"/", "f", "i", "l", "e", ".", "p", "d", "f">>,
    <<"/", "f", "i", "l", "e", ".", "p", "d", "f", ".", "h", "t", "m", "l">> }

AllPaths == UpTo(PathChars, MaxPathLen) \cup QueryPaths

IsLiteral(p) == \A i \in 1..Len(p) : p[i] \notin {"*", "$"}

IsPrefix(q, p) == Len(q) <= Len(p) /\ SubSeq(p, 1, Len(q)) = q

\* the non-empty prefixes of p: the nodes on the way from the root to p
Prefixes(p) == {SubSeq(p, 1, i) : i \in 1..Len(p)}

----------------------------------------------------------------------------
(* ExpressionNode / ExpressionTree as values *)

\* a trie: its nodes and the two flag sets
Trie(n, a, d) == [nodes |-> n, allow |-> a, disallow |-> d]

\* new ExpressionTree(...): only the dummy root node, no flag set
EmptyTrie == Trie({<< >>}, {}, {})

CurrentTrie == Trie(nodes, allowFlag, disallowFlag)

\* node.children.has(character)
has(t, node, character) == Append(node, character) \in t.nodes

\* node.children.get(character)
get(node, character) == Append(node, character)

\* expression.substr(i)
substr(expression, i) == SubSeq(expression, i + 1, Len(expression))

----------------------------------------------------------------------------
(* ExpressionTree.addExpression *)

\* SetFlag with the last rule winning: setting one flag clears the other
SetFlagLastWins(t, node, ruleType) ==
  IF ruleType = "allow"
  THEN [t EXCEPT !.allow = @ \cup {node}, !.disallow = @ \ {node}]
  ELSE IF ruleType = "disallow"
  THEN [t EXCEPT !.disallow = @ \cup {node}, !.allow = @ \ {node}]
  ELSE t

\* SetFlag with a two-way test: whatever is not "allow" counts as "disallow"
SetFlagElseDisallow(t, node, ruleType) ==
  IF ruleType = "allow" THEN [t EXCEPT !.allow = @ \cup {node}]
  ELSE [t EXCEPT !.disallow = @ \cup {node}]

\* the if / else-if / else on ruleType at the node of the last character
SetFlag(t, node, ruleType) ==
  IF ruleType = "allow" THEN [t EXCEPT !.allow = @ \cup {node}]
  ELSE IF ruleType = "disallow" THEN [t EXCEPT !.disallow = @ \cup {node}]
  ELSE t  \* console.error, no mutation

\* one iteration of the for loop, i counted from 0 as in the source
AddCharacter(t, expression, i, ruleType) ==
  LET currentNode == SubSeq(expression, 1, i + 1)
      created     == [t EXCEPT !.nodes = @ \cup {currentNode}]
  IN  IF i = Len(expression) - 1 THEN SetFlag(created, currentNode, ruleType)
      ELSE created

RECURSIVE AddLoop(_, _, _, _)
AddLoop(t, expression, i, ruleType) ==
  IF i < Len(expression)
  THEN AddLoop(AddCharacter(t, expression, i, ruleType), expression, i + 1, ruleType)
  ELSE t

\* addExpression with the flag set after the loop, on the node the walk ended at
addExpressionFlagAfterLoop(t, expression, ruleType) ==
  SetFlag([t EXCEPT !.nodes = @ \cup Prefixes(expression)], expression, ruleType)

addExpression(t, expression, ruleType) == AddLoop(t, expression, 0, ruleType)

----------------------------------------------------------------------------
(* ExpressionTree.__evaluateExpression *)

\* AnchorCheck without the expression.length == 0 tests
AnchorCheckAnyLength(t, expression, node) ==
  IF has(t, node, "$")
  THEN LET endOfLineNode == get(node, "$")
       IN  IF endOfLineNode \in t.allow THEN "allow"
           ELSE IF endOfLineNode \in t.disallow THEN "disallow"
           ELSE "none"
  ELSE "none"

\* the '$' block at the top: "allow", "disallow", or "none" when it falls through
AnchorCheck(t, expression, node) ==
  IF has(t, node, "$")
  THEN LET endOfLineNode == get(node, "$")
       IN  IF endOfLineNode \in t.allow /\ Len(expression) = 0 THEN "allow"
           ELSE IF endOfLineNode \in t.disallow /\ Len(expression) = 0 THEN "disallow"
           ELSE "none"
  ELSE "none"

\* BaseCase that returns the inherited verdict whatever the node's flags
BaseCaseIgnoresFlags(t, def, node, currentVeredict) == currentVeredict

\* the value returned when expression.length == 0
BaseCase(t, def, node, currentVeredict) ==
  IF def
  THEN (IF node \in t.disallow THEN FALSE ELSE currentVeredict)
  ELSE (IF node \in t.allow THEN TRUE ELSE currentVeredict)

\* newVeredict after the two flag tests
FoldFlags(t, node, currentVeredict) ==
  LET afterDisallow == IF node \in t.disallow THEN FALSE ELSE currentVeredict
  IN  IF node \in t.allow THEN TRUE ELSE afterDisallow

\* WildcardOffsets starting at 1: the wildcard consumes at least one character
WildcardOffsetsFromOne(expression) == 1 .. (Len(expression) - 1)

\* the values of i of the loop that fills veredicts
WildcardOffsets(expression) == 0 .. (Len(expression) - 1)

\* the scan of veredicts (indexed by the offset i): the first entry that differs
\* from the default, if any
ScanVeredicts(veredicts, def, newVeredict) ==
  LET differing == {i \in DOMAIN veredicts : veredicts[i] # def}
  IN  IF differing = {} THEN newVeredict
      ELSE veredicts[CHOOSE i \in differing : \A j \in differing : i <= j]

RECURSIVE __evaluateExpression(_, _, _, _, _)
__evaluateExpression(t, def, expression, node, currentVeredict) ==
  LET anchor == AnchorCheck(t, expression, node)
  IN  IF anchor = "allow" THEN TRUE
      ELSE IF anchor = "disallow" THEN FALSE
      ELSE IF Len(expression) = 0 THEN BaseCase(t, def, node, currentVeredict)
      ELSE
        LET folded == FoldFlags(t, node, currentVeredict)
            wildcardStartNode == get(node, "*")
            veredicts ==
              [i \in WildcardOffsets(expression) |->
                 __evaluateExpression(t, def, substr(expression, i), wildcardStartNode, folded)]
            newVeredict ==
              IF has(t, node, "*") THEN ScanVeredicts(veredicts, def, folded)
              ELSE folded
        IN  IF has(t, node, expression[1])
            THEN __evaluateExpression(t, def, substr(expression, 1),
                             get(node, expression[1]), newVeredict)
            ELSE newVeredict

\* ExpressionTree.evaluateExpression
evaluateExpression(t, def, expression) == __evaluateExpression(t, def, expression, << >>, def)

\* the verdict of the current matcher
Verdict(path) == evaluateExpression(CurrentTrie, DEFAULT_PERMISSION, path)

----------------------------------------------------------------------------
(* The public operations *)

\* new Permissions(): DEFAULT_PERMISSION = true, an empty trie
Init ==
  /\ nodes = EmptyTrie.nodes
  /\ allowFlag = EmptyTrie.allow
  /\ disallowFlag = EmptyTrie.disallow
  /\ DEFAULT_PERMISSION = TRUE
  /\ rules = {}
  /\ lastCall = "constructor"
  /\ queried = << >>
  /\ returned = "undefined"

\* new ExpressionTree(DEFAULT_PERMISSION): either default
InitTree ==
  /\ nodes = EmptyTrie.nodes
  /\ allowFlag = EmptyTrie.allow
  /\ disallowFlag = EmptyTrie.disallow
  /\ DEFAULT_PERMISSION \in BOOLEAN
  /\ rules = {}
  /\ lastCall = "constructor"
  /\ queried = << >>
  /\ returned = "undefined"

\* Permissions.addPath(path, ruleType)
addPath(path, ruleType) ==
  LET t == addExpression(CurrentTrie, path, ruleType)
  IN  /\ Cardinality(rules \cup {<<path, ruleType>>}) <= MaxRules
      /\ nodes' = t.nodes
      /\ allowFlag' = t.allow
      /\ disallowFlag' = t.disallow
      /\ rules' = rules \cup {<<path, ruleType>>}
      /\ lastCall' = "addPath"
      /\ queried' = << >>
      /\ returned' = "undefined"
      /\ UNCHANGED DEFAULT_PERMISSION

\* isAllowed that creates the nodes it looks up (get-or-create children)
isAllowedCreatesNodes(path) ==
  /\ lastCall' = "isAllowed"
  /\ queried' = path
  /\ returned' = Verdict(path)
  /\ nodes' = nodes \cup Prefixes(path)
  /\ UNCHANGED <<allowFlag, disallowFlag, DEFAULT_PERMISSION, rules>>

\* Permissions.isAllowed(path)
isAllowed(path) ==
  /\ lastCall' = "isAllowed"
  /\ queried' = path
  /\ returned' = Verdict(path)
  /\ UNCHANGED <<nodes, allowFlag, disallowFlag, DEFAULT_PERMISSION, rules>>

AddPathStep == \E path \in Patterns, ruleType \in RuleTypes : addPath(path, ruleType)

IsAllowedStep == \E path \in QueryPaths : isAllowed(path)

Next == AddPathStep \/ IsAllowedStep

\* a Permissions matcher
Spec == Init /\ [][Next]_vars

\* an ExpressionTree built with either default
SpecTree == InitTree /\ [][Next]_vars

\* the insertion phase alone, for either default
SpecInsert == InitTree /\ [][AddPathStep]_vars

----------------------------------------------------------------------------
(* Auxiliary definitions of the properties *)

\* the trie a set of (pattern, ruleType) pairs stands for, whatever the order
\* and the number of the insertions
TrieOf(pairs) ==
  Trie({<< >>} \cup UNION {Prefixes(r[1]) : r \in pairs},
       {r[1] : r \in {x \in pairs : x[2] = "allow" /\ x[1] # << >>}},
       {r[1] : r \in {x \in pairs : x[2] = "disallow" /\ x[1] # << >>}})

\* the verdict of a matcher that holds no rule
NoRuleVerdict(path) == evaluateExpression(EmptyTrie, DEFAULT_PERMISSION, path)

\* the recursive evaluation as spec section 4.3 words it: step 4 makes a
\* sub-call for every offset from 0 to len(remainingPath) inclusive
RECURSIVE Section43Rec(_, _, _, _, _)
Section43Rec(t, def, remainingPath, currentNode, runningVerdict) ==
  LET anchorChild == Append(currentNode, "$")
  IN  IF Len(remainingPath) = 0 /\ anchorChild \in t.nodes /\ anchorChild \in t.allow
      THEN TRUE
      ELSE IF Len(remainingPath) = 0 /\ anchorChild \in t.nodes /\ anchorChild \in t.disallow
      THEN FALSE
      ELSE IF Len(remainingPath) = 0
      THEN (IF def
            THEN (IF currentNode \in t.disallow THEN FALSE ELSE runningVerdict)
            ELSE (IF currentNode \in t.allow THEN TRUE ELSE runningVerdict))
      ELSE
        LET folded == IF currentNode \in t.allow THEN TRUE
                      ELSE IF currentNode \in t.disallow THEN FALSE
                      ELSE runningVerdict
            wildcardChild == Append(currentNode, "*")
            results ==
              [k \in 1..(Len(remainingPath) + 1) |->
                 Section43Rec(t, def, SubSeq(remainingPath, k, Len(remainingPath)),
                              wildcardChild, folded)]
            differing == {k \in DOMAIN results : results[k] # def}
            afterWildcard ==
              IF wildcardChild \in t.nodes /\ differing # {}
              THEN results[CHOOSE k \in differing : \A j \in differing : k <= j]
              ELSE folded
            literalChild == Append(currentNode, remainingPath[1])
        IN  IF literalChild \in t.nodes
            THEN Section43Rec(t, def, Tail(remainingPath), literalChild, afterWildcard)
            ELSE afterWildcard

Section43Evaluate(t, def, path) == Section43Rec(t, def, path, << >>, def)

----------------------------------------------------------------------------
(* The claims *)

\* C1: with exactly disallow(q) and allow(p), q a non-empty proper prefix of
\* p, both literal, and default permission true, every path that starts with
\* p (p itself included) is allowed and every path that starts with q but not
\* with p is forbidden.
C1_LongestMatch ==
  \A q \in Patterns, p \in Patterns :
    ( /\ IsLiteral(q) /\ IsLiteral(p)
      /\ q # << >> /\ q # p /\ IsPrefix(q, p)
      /\ rules = {<<q, "disallow">>, <<p, "allow">>} )
    => \A s \in AllPaths \cup {p} :
         /\ IsPrefix(p, s) => Verdict(s) = TRUE
         /\ (IsPrefix(q, s) /\ ~IsPrefix(p, s)) => Verdict(s) = FALSE

\* C2: when a non-empty pattern p was inserted both as allow and as disallow
\* and nothing else was inserted, isAllowed(p) is true.
C2_TieResolvesToAllow ==
  \A p \in Patterns :
    (p # << >> /\ rules = {<<p, "allow">>, <<p, "disallow">>})
    => Verdict(p) = TRUE

\* C3: a non-empty literal pattern p inserted as the only rule evaluates, as
\* a path, to true when inserted as allow and to false when inserted as
\* disallow, for either default permission.
C3_SingleLiteralRule ==
  \A p \in Patterns :
    (p # << >> /\ IsLiteral(p))
    => /\ rules = {<<p, "allow">>} => Verdict(p) = TRUE
       /\ rules = {<<p, "disallow">>} => Verdict(p) = FALSE

C3_Witness ==
  /\ lastCall = "isAllowed"
  /\ DEFAULT_PERMISSION = FALSE
  /\ rules = {<<queried, "allow">>}
  /\ queried # << >> /\ IsLiteral(queried)
  /\ returned = TRUE

\* C4: with only disallow("/a*b"), every path "/a" + w + "b" is forbidden,
\* the empty w ("/ab") and w = "xxx" included, and "/ac" has the verdict it
\* has on a matcher with no rule.
C4_WildcardCoverage ==
  rules = {<< <<"/", "a", "*", "b">>, "disallow" >>}
  => /\ \A w \in UpTo(PathChars, MaxPathLen) \cup {<<"x", "x", "x">>} :
          Verdict(<<"/", "a">> \o w \o <<"b">>) = FALSE
     /\ Verdict(<<"/", "a", "c">>) = NoRuleVerdict(<<"/", "a", "c">>)

C4_Witness ==
  /\ lastCall = "isAllowed"
  /\ rules = {<< <<"/", "a", "*", "b">>, "disallow" >>}
  /\ queried = <<"/", "a", "b">>
  /\ returned = FALSE

C6_SetDetermined == CurrentTrie = TrieOf(rules)

C6_Witness ==
  /\ lastCall = "addPath"
  /\ rules = {<< <<"a", "*", "b">>, "allow" >>, << <<"a", "*", "b">>, "disallow" >>}

\* C7: in every reachable state, addPath(pattern, k) with k neither "allow"
\* nor "disallow" creates the nodes of the pattern, changes no flag, removes
\* no node and leaves the verdict of every path as it was.
C7_InvalidKindNoOp ==
  \A pattern \in Patterns :
    LET t == addExpression(CurrentTrie, pattern, "noindex")
    IN  /\ t.nodes = nodes \cup Prefixes(pattern)
        /\ t.allow = allowFlag
        /\ t.disallow = disallowFlag
        /\ \A s \in AllPaths :
             evaluateExpression(t, DEFAULT_PERMISSION, s) = Verdict(s)

C7_Witness ==
  /\ lastCall = "addPath"
  /\ << <<"a", "*", "$">>, "noindex" >> \in rules
  /\ << <<"a", "b">>, "disallow" >> \in rules
  /\ <<"a", "*", "$">> \in nodes
  /\ allowFlag = {}
  /\ disallowFlag = {<<"a", "b">>}

\* C8 as stated: after any insertions, isAllowed("") is the default permission.
C8_EmptyPathIsDefault == Verdict(<< >>) = DEFAULT_PERMISSION

\* C8 as amended: the root never carries a flag, and isAllowed("") is the
\* default permission unless the pattern "$" was inserted as a rule; then
\* the anchored rule decides: true if inserted as allow, else false.
C8_EmptyPathAmended ==
  /\ << >> \notin allowFlag \cup disallowFlag
  /\ Verdict(<< >>) =
       IF << <<"$">>, "allow" >> \in rules THEN TRUE
       ELSE IF << <<"$">>, "disallow" >> \in rules THEN FALSE
       ELSE DEFAULT_PERMISSION

C8_Witness ==
  /\ lastCall = "isAllowed"
  /\ queried = << >>
  /\ rules = {<< << >>, "disallow" >>, << <<"$">>, "disallow" >>}
  /\ DEFAULT_PERMISSION = TRUE
  /\ returned = FALSE

\* C9: a call of isAllowed leaves the nodes, every flag and the default
\* permission as they were.
C9_ReadOnlyEvaluation ==
  [][lastCall' = "isAllowed" => UNCHANGED trieVars]_vars

C9_Witness ==
  /\ lastCall = "isAllowed"
  /\ queried = <<"a", "b">>
  /\ <<"a", "b">> \in disallowFlag
  /\ <<"a", "*">> \in nodes

\* C10: for every trie and path, evaluateExpression returns the value of the
\* recursive algorithm of spec section 4.3, whose wildcard step makes a
\* sub-call for every offset from 0 to the remaining length inclusive.
C10_InclusiveOffsets ==
  \A s \in AllPaths : Verdict(s) = Section43Evaluate(CurrentTrie, DEFAULT_PERMISSION, s)

====
